---- MODULE Spec2Model ----
(***************************************************************************)
(* Model of financial-data-utils: the Questrade client of src/qtrade.py    *)
(* (token exchange, refresh, account/candle/quote/symbol requests on one   *)
(* shared requests session) and the list helpers of src/utils.py           *)
(* (get_pivots, get_average_volume, build_sma_df).                         *)
(*                                                                         *)
(* Spec      : one Questrade instance, from construction on.               *)
(* SpecUtils : the pure helpers of utils.py applied to bounded inputs.     *)
(***************************************************************************)
EXTENDS Integers, Sequences, FiniteSets, TLC

VARIABLES
    client,           \* "none" (not constructed), "ready" (__init__ returned), "failed" (__init__ raised)
    client_token,     \* self.client_token
    access_token,     \* self.access_token (NoToken: the attribute was never set)
    headers,          \* self.headers: the Authorization value, or "None"
    session_headers,  \* self.session.headers["Authorization"], or "None" when the key is absent
    accounts,         \* self.accounts, or "None"
    log,              \* history: the HTTP requests sent through self.session, in order
    ret               \* the last call: its name, arguments, outcome and value

vars == <<client, client_token, access_token, headers, session_headers, accounts, log, ret>>

clientVars == <<client, client_token, access_token, headers, session_headers, accounts, log>>

-----------------------------------------------------------------------------
(* Bounds of the model *)

\* requests one client instance sends before the model stops extending the log
MaxReq == 4
\* longest list handed to get_pivots / get_average_volume
MaxLen == 3
\* list elements are drawn from 1..MaxVal
MaxVal == 3
\* longest symbols list of a search response
MaxResults == 2
\* most date keys of an SMA mapping
MaxKeys == 3

-----------------------------------------------------------------------------
(* Values *)

None == "None"

\* self.access_token before get_access_token has assigned it
NoToken == [absent |-> TRUE]

T1 == [token_type |-> "Bearer", access_token |-> "a1", refresh_token |-> "r1",
       api_server |-> "https://api01.iq.questrade.com/", expires_in |-> 1800]

T2 == [token_type |-> "Bearer", access_token |-> "a2", refresh_token |-> "r2",
       api_server |-> "https://api02.iq.questrade.com/", expires_in |-> 1800]

Tokens == {T1, T2}

ClientTokens == {"ct0"}

\* A response: resp.text, and what resp.json() yields ({} when the text is no JSON).
BadRequest == [text |-> "Bad Request", json |-> {}]

NotJson == [text |-> "<html>Service Unavailable</html>", json |-> {}]

JsonBody(v) == [text |-> "{json}", json |-> {v}]

TokenBodies == {BadRequest, NotJson} \cup {JsonBody(t) : t \in Tokens}

AccountBodies == {JsonBody("accountsA"), JsonBody("accountsB")}

\* the log keeps the response of token and accounts requests only
NotKept == [text |-> "{json}", json |-> {}]

InvalidClientToken == "ValueError('Invalid client token')"

JSONDecodeError == "JSONDecodeError"

NoExactMatch == "ValueError('No exact match was found for the requested ticker')"

IndexError == "IndexError"

EmptySequence == "ValueError('min() arg is an empty sequence')"

Ok == "ok"

\* resp.json()
Json(resp) == CHOOSE v \in resp.json : TRUE

IsJson(resp) == resp.json # {}

serv_url == "https://login.questrade.com/oauth2/token?grant_type=refresh_token&refresh_token="

\* {"Authorization": token_type + " " + access_token}
Authorization(tok) == tok.token_type \o " " \o tok.access_token

\* os.path.join(api_server, api_version, endpoint); api_server ends with "/"
Endpoint(tok, api_version, endpoint) == tok.api_server \o api_version \o endpoint

\* one request through self.session: it carries the session's default headers
Request(op, kind, url, resp) ==
    [op |-> op, kind |-> kind, url |-> url, auth |-> session_headers, resp |-> resp]

Call(op, args, outcome, value) ==
    [op |-> op, args |-> args, outcome |-> outcome, value |-> value]

-----------------------------------------------------------------------------
(* Questrade *)

Init ==
    /\ client = "none"
    /\ client_token = None
    /\ access_token = NoToken
    /\ headers = None
    /\ session_headers = None
    /\ accounts = None
    /\ log = <<>>
    /\ ret = Call("none", <<>>, Ok, None)

\* __init__ without its call of get_accounts
Construct_NoAccounts(ct, resp, accResp) ==
    /\ client = "none"
    /\ Len(log) + 2 <= MaxReq
    /\ client_token' = ct
    /\ log' = Append(log, Request("__init__", "token", serv_url \o ct, resp))
    /\ IF resp.text = "Bad Request" \/ ~IsJson(resp)
       THEN /\ client' = "failed"
            /\ ret' = Call("__init__", <<ct>>,
                           IF resp.text = "Bad Request" THEN InvalidClientToken
                           ELSE JSONDecodeError, None)
            /\ UNCHANGED <<access_token, headers, session_headers, accounts>>
       ELSE /\ client' = "ready"
            /\ access_token' = Json(resp)
            /\ headers' = Authorization(Json(resp))
            /\ session_headers' = Authorization(Json(resp))
            /\ ret' = Call("__init__", <<ct>>, Ok, None)
            /\ UNCHANGED accounts

\* __init__ that swallows the exception of get_access_token and of get_accounts,
\* handing the caller an instance that never obtained a token
Construct_Swallow(ct, resp, accResp) ==
    /\ client = "none"
    /\ Len(log) + 2 <= MaxReq
    /\ client_token' = ct
    /\ client' = "ready"
    /\ IF resp.text = "Bad Request" \/ ~IsJson(resp)
       THEN /\ log' = Append(log, Request("__init__", "token", serv_url \o ct, resp))
            /\ ret' = Call("__init__", <<ct>>, Ok, None)
            /\ UNCHANGED <<access_token, headers, session_headers, accounts>>
       ELSE /\ access_token' = Json(resp)
            /\ headers' = Authorization(Json(resp))
            /\ session_headers' = Authorization(Json(resp))
            /\ accounts' = Json(accResp)
            /\ log' = log \o
                 << Request("__init__", "token", serv_url \o ct, resp),
                    [op |-> "__init__", kind |-> "accounts",
                     url |-> Endpoint(Json(resp), "v1/", "accounts"),
                     auth |-> Authorization(Json(resp)), resp |-> accResp] >>
            /\ ret' = Call("__init__", <<ct>>, Ok, None)

\* Questrade.__init__: get_access_token, then get_accounts; an exception of
\* either leaves the caller without an instance.
Construct(ct, resp, accResp) ==
    /\ client = "none"
    /\ Len(log) + 2 <= MaxReq
    /\ client_token' = ct
    /\ IF resp.text = "Bad Request" \/ ~IsJson(resp)
       THEN /\ client' = "failed"
            /\ log' = Append(log, Request("__init__", "token", serv_url \o ct, resp))
            /\ ret' = Call("__init__", <<ct>>,
                           IF resp.text = "Bad Request" THEN InvalidClientToken
                           ELSE JSONDecodeError, None)
            /\ UNCHANGED <<access_token, headers, session_headers, accounts>>
       ELSE /\ client' = "ready"
            /\ access_token' = Json(resp)
            /\ headers' = Authorization(Json(resp))
            /\ session_headers' = Authorization(Json(resp))
            /\ accounts' = Json(accResp)
            /\ log' = log \o
                 << Request("__init__", "token", serv_url \o ct, resp),
                    [op |-> "__init__", kind |-> "accounts",
                     url |-> Endpoint(Json(resp), "v1/", "accounts"),
                     auth |-> Authorization(Json(resp)), resp |-> accResp] >>
            /\ ret' = Call("__init__", <<ct>>, Ok, None)

\* get_access_token that calls resp.json() before it looks at resp.text
GetAccessToken_JsonFirst(resp) ==
    /\ client = "ready"
    /\ Len(log) < MaxReq
    /\ log' = Append(log, Request("get_access_token", "token",
                                  serv_url \o client_token, resp))
    /\ IF ~IsJson(resp)
       THEN /\ ret' = Call("get_access_token", <<>>, JSONDecodeError, None)
            /\ UNCHANGED <<access_token, headers, session_headers>>
       ELSE /\ access_token' = Json(resp)
            /\ headers' = Authorization(Json(resp))
            /\ session_headers' = Authorization(Json(resp))
            /\ ret' = Call("get_access_token", <<>>, Ok, Json(resp))
    /\ UNCHANGED <<client, client_token, accounts>>

\* Questrade.get_access_token
GetAccessToken(resp) ==
    /\ client = "ready"
    /\ Len(log) < MaxReq
    /\ log' = Append(log, Request("get_access_token", "token",
                                  serv_url \o client_token, resp))
    /\ IF resp.text = "Bad Request"
       THEN /\ ret' = Call("get_access_token", <<>>, InvalidClientToken, None)
            /\ UNCHANGED <<access_token, headers, session_headers>>
       ELSE IF ~IsJson(resp)
       THEN /\ ret' = Call("get_access_token", <<>>, JSONDecodeError, None)
            /\ UNCHANGED <<access_token, headers, session_headers>>
       ELSE /\ access_token' = Json(resp)
            /\ headers' = Authorization(Json(resp))
            /\ session_headers' = Authorization(Json(resp))
            /\ ret' = Call("get_access_token", <<>>, Ok, Json(resp))
    /\ UNCHANGED <<client, client_token, accounts>>

\* refresh_access_token without self.session.headers.update(self.headers)
RefreshAccessToken_NoSessionUpdate(resp) ==
    /\ client = "ready"
    /\ Len(log) < MaxReq
    /\ log' = Append(log, Request("refresh_access_token", "token",
                                  serv_url \o access_token.refresh_token, resp))
    /\ IF resp.text = "Bad Request"
       THEN /\ ret' = Call("refresh_access_token", <<>>, InvalidClientToken, None)
            /\ UNCHANGED <<access_token, headers, session_headers>>
       ELSE IF ~IsJson(resp)
       THEN /\ ret' = Call("refresh_access_token", <<>>, JSONDecodeError, None)
            /\ UNCHANGED <<access_token, headers, session_headers>>
       ELSE /\ access_token' = Json(resp)
            /\ headers' = Authorization(Json(resp))
            /\ UNCHANGED session_headers
            /\ ret' = Call("refresh_access_token", <<>>, Ok, Json(resp))
    /\ UNCHANGED <<client, client_token, accounts>>

\* refresh_access_token that sends self.client_token, as get_access_token does
RefreshAccessToken_ClientToken(resp) ==
    /\ client = "ready"
    /\ Len(log) < MaxReq
    /\ log' = Append(log, Request("refresh_access_token", "token",
                                  serv_url \o client_token, resp))
    /\ IF resp.text = "Bad Request"
       THEN /\ ret' = Call("refresh_access_token", <<>>, InvalidClientToken, None)
            /\ UNCHANGED <<access_token, headers, session_headers>>
       ELSE IF ~IsJson(resp)
       THEN /\ ret' = Call("refresh_access_token", <<>>, JSONDecodeError, None)
            /\ UNCHANGED <<access_token, headers, session_headers>>
       ELSE /\ access_token' = Json(resp)
            /\ headers' = Authorization(Json(resp))
            /\ session_headers' = Authorization(Json(resp))
            /\ ret' = Call("refresh_access_token", <<>>, Ok, Json(resp))
    /\ UNCHANGED <<client, client_token, accounts>>

\* refresh_access_token that resets self.headers before it raises
RefreshAccessToken_DropsHeaders(resp) ==
    /\ client = "ready"
    /\ Len(log) < MaxReq
    /\ log' = Append(log, Request("refresh_access_token", "token",
                                  serv_url \o access_token.refresh_token, resp))
    /\ IF resp.text = "Bad Request"
       THEN /\ ret' = Call("refresh_access_token", <<>>, InvalidClientToken, None)
            /\ headers' = None /\ UNCHANGED <<access_token, session_headers>>
       ELSE IF ~IsJson(resp)
       THEN /\ ret' = Call("refresh_access_token", <<>>, JSONDecodeError, None)
            /\ UNCHANGED <<access_token, headers, session_headers>>
       ELSE /\ access_token' = Json(resp)
            /\ headers' = Authorization(Json(resp))
            /\ session_headers' = Authorization(Json(resp))
            /\ ret' = Call("refresh_access_token", <<>>, Ok, Json(resp))
    /\ UNCHANGED <<client, client_token, accounts>>

\* Questrade.refresh_access_token
RefreshAccessToken(resp) ==
    /\ client = "ready"
    /\ Len(log) < MaxReq
    /\ log' = Append(log, Request("refresh_access_token", "token",
                                  serv_url \o access_token.refresh_token, resp))
    /\ IF resp.text = "Bad Request"
       THEN /\ ret' = Call("refresh_access_token", <<>>, InvalidClientToken, None)
            /\ UNCHANGED <<access_token, headers, session_headers>>
       ELSE IF ~IsJson(resp)
       THEN /\ ret' = Call("refresh_access_token", <<>>, JSONDecodeError, None)
            /\ UNCHANGED <<access_token, headers, session_headers>>
       ELSE /\ access_token' = Json(resp)
            /\ headers' = Authorization(Json(resp))
            /\ session_headers' = Authorization(Json(resp))
            /\ ret' = Call("refresh_access_token", <<>>, Ok, Json(resp))
    /\ UNCHANGED <<client, client_token, accounts>>

\* Questrade.get_accounts
GetAccounts(api_version, resp) ==
    /\ client = "ready"
    /\ Len(log) < MaxReq
    /\ log' = Append(log, Request("get_accounts", "accounts",
                                  Endpoint(access_token, api_version, "accounts"), resp))
    /\ accounts' = Json(resp)
    /\ ret' = Call("get_accounts", <<api_version>>, Ok, Json(resp))
    /\ UNCHANGED <<client, client_token, access_token, headers, session_headers>>

\* Questrade.get_candles
GetCandles(symbol_id, start_time, end_time, time_interval, api_version, resp) ==
    /\ client = "ready"
    /\ Len(log) < MaxReq
    /\ LET start_t == start_time \o "T00:00:00-05:00"
           end_t == end_time \o "T00:00:00-05:00"
           url == Endpoint(access_token, api_version, "markets/candles")
                    \o "/" \o symbol_id \o "?startTime=" \o start_t
                    \o "&endTime=" \o end_t \o "&interval=" \o time_interval
       IN  /\ log' = Append(log, Request("get_candles", "candles", url, NotKept))
           /\ ret' = Call("get_candles",
                          <<symbol_id, start_time, end_time, time_interval, api_version>>,
                          Ok, Json(resp))
    /\ UNCHANGED <<client, client_token, access_token, headers, session_headers, accounts>>

\* Questrade.get_quote
GetQuote(symbol_id, api_version, resp) ==
    /\ client = "ready"
    /\ Len(log) < MaxReq
    /\ log' = Append(log, Request("get_quote", "quotes",
                 Endpoint(access_token, api_version, "markets/quotes") \o "/" \o symbol_id,
                 NotKept))
    /\ ret' = Call("get_quote", <<symbol_id, api_version>>, Ok, Json(resp))
    /\ UNCHANGED <<client, client_token, access_token, headers, session_headers, accounts>>

DigitChars == <<"0", "1", "2", "3", "4", "5", "6", "7", "8", "9">>

\* str(n) of a non-negative int: its decimal digits, most significant first
RECURSIVE Str(_)
Str(n) == IF n < 10 THEN <<DigitChars[n + 1]>>
          ELSE Append(Str(n \div 10), DigitChars[(n % 10) + 1])

\* get_symbol_id that accepts an exact match anywhere in the result list
GetSymbolId_AnyMatch(ticker, api_version, symbols) ==
    /\ client = "ready"
    /\ Len(log) < MaxReq
    /\ log' = Append(log, Request("get_symbol_id", "symbols",
                 Endpoint(access_token, api_version, "symbols/search")
                    \o "?prefix=" \o ticker,
                 NotKept))
    /\ ret' = IF Len(symbols) = 0
              THEN Call("get_symbol_id", <<ticker, symbols>>, IndexError, None)
              ELSE IF \E i \in 1..Len(symbols) : symbols[i].symbol = ticker
              THEN LET i == CHOOSE k \in 1..Len(symbols) :
                               /\ symbols[k].symbol = ticker
                               /\ \A m \in 1..(k - 1) : symbols[m].symbol # ticker
                   IN  Call("get_symbol_id", <<ticker, symbols>>, Ok,
                            Str(symbols[i].symbolId))
              ELSE Call("get_symbol_id", <<ticker, symbols>>, NoExactMatch, None)
    /\ UNCHANGED <<client, client_token, access_token, headers, session_headers, accounts>>

\* Questrade.get_symbol_id: symbols is resp['symbols'] of the search response
GetSymbolId(ticker, api_version, symbols) ==
    /\ client = "ready"
    /\ Len(log) < MaxReq
    /\ log' = Append(log, Request("get_symbol_id", "symbols",
                 Endpoint(access_token, api_version, "symbols/search")
                    \o "?prefix=" \o ticker,
                 NotKept))
    /\ ret' = IF Len(symbols) = 0
              THEN Call("get_symbol_id", <<ticker, symbols>>, IndexError, None)
              ELSE IF symbols[1].symbol = ticker
              THEN Call("get_symbol_id", <<ticker, symbols>>, Ok, Str(symbols[1].symbolId))
              ELSE Call("get_symbol_id", <<ticker, symbols>>, NoExactMatch, None)
    /\ UNCHANGED <<client, client_token, access_token, headers, session_headers, accounts>>

(* Inputs of the client's calls *)

ApiVersions == {"v1/"}

SymbolIdArgs == {"8049"}

DateArgs == {"2020-03-24"}

Intervals == {"OneDay"}

CandleBodies == {JsonBody("candles")}

QuoteBodies == {JsonBody("quotes")}

Tickers == {"AAP", "AAPL"}

SymbolRecords == [symbol : Tickers, symbolId : {7, 8049}]

SeqsUpTo(S, n) == UNION {[1..k -> S] : k \in 0..n}

SymbolLists == SeqsUpTo(SymbolRecords, MaxResults)

Next ==
    \/ \E ct \in ClientTokens, resp \in TokenBodies, accResp \in AccountBodies :
          Construct(ct, resp, accResp)
    \/ \E resp \in TokenBodies : GetAccessToken(resp)
    \/ \E resp \in TokenBodies : RefreshAccessToken(resp)
    \/ \E v \in ApiVersions, resp \in AccountBodies : GetAccounts(v, resp)
    \/ \E id \in SymbolIdArgs, s \in DateArgs, e \in DateArgs, i \in Intervals,
          v \in ApiVersions, resp \in CandleBodies : GetCandles(id, s, e, i, v, resp)
    \/ \E id \in SymbolIdArgs, v \in ApiVersions, resp \in QuoteBodies :
          GetQuote(id, v, resp)
    \/ \E t \in Tickers, v \in ApiVersions, l \in SymbolLists : GetSymbolId(t, v, l)

Spec == Init /\ [][Next]_vars

-----------------------------------------------------------------------------
(* utils.py *)

Min2(a, b) == IF a < b THEN a ELSE b

Max2(a, b) == IF a > b THEN a ELSE b

\* list[:n] of Python: the first n elements, all of them when n exceeds the
\* length, and all but the last -n when n is negative
Slice(list, n) ==
    IF n >= 0 THEN SubSeq(list, 1, Min2(n, Len(list)))
    ELSE SubSeq(list, 1, Max2(Len(list) + n, 0))

\* min(list) of a non-empty list: the first of the smallest elements
RECURSIVE PyMin(_)
PyMin(list) ==
    IF Len(list) = 1 THEN list[1]
    ELSE LET m == PyMin(SubSeq(list, 1, Len(list) - 1))
         IN  IF list[Len(list)] < m THEN list[Len(list)] ELSE m

\* max(list) of a non-empty list
RECURSIVE PyMax(_)
PyMax(list) ==
    IF Len(list) = 1 THEN list[1]
    ELSE LET m == PyMax(SubSeq(list, 1, Len(list) - 1))
         IN  IF list[Len(list)] > m THEN list[Len(list)] ELSE m

\* list.index(v), v in list: the 0-based position of the first element equal to v
RECURSIVE PyIndex(_, _)
PyIndex(list, v) ==
    IF list[1] = v THEN 0 ELSE 1 + PyIndex(Tail(list), v)

RECURSIVE Sum(_)
Sum(list) == IF list = <<>> THEN 0 ELSE Head(list) + Sum(Tail(list))

\* get_pivots that takes min and max of the whole lists
get_pivots_whole(low_list, high_list, n_periods) ==
    LET lows == Slice(low_list, n_periods)
        highs == Slice(high_list, n_periods)
    IN  IF lows = <<>> \/ highs = <<>>
        THEN [outcome |-> EmptySequence, value |-> None]
        ELSE [outcome |-> Ok,
              value |-> << <<PyMin(low_list), PyIndex(low_list, PyMin(low_list))>>,
                           <<PyMax(high_list), PyIndex(high_list, PyMax(high_list))>> >>]

\* get_pivots: what the call returns or raises
get_pivots(low_list, high_list, n_periods) ==
    LET lows == Slice(low_list, n_periods)
        highs == Slice(high_list, n_periods)
    IN  IF lows = <<>> \/ highs = <<>>
        THEN [outcome |-> EmptySequence, value |-> None]
        ELSE [outcome |-> Ok,
              value |-> << <<PyMin(lows), PyIndex(lows, PyMin(lows))>>,
                           <<PyMax(highs), PyIndex(highs, PyMax(highs))>> >>]

\* get_average_volume: np.mean of the slice, as the fraction <<sum, count>>;
\* np.mean of an empty list is nan (with a RuntimeWarning), not an exception
get_average_volume(volume_list, n_periods) ==
    LET vols == Slice(volume_list, n_periods)
    IN  IF vols = <<>>
        THEN [outcome |-> Ok, value |-> "nan"]
        ELSE [outcome |-> Ok, value |-> <<Sum(vols), Len(vols)>>]

DigitOf(c) == CHOOSE d \in 0..9 : DigitChars[d + 1] = c

RECURSIVE Pow10(_)
Pow10(k) == IF k = 0 THEN 1 ELSE 10 * Pow10(k - 1)

\* int(chars) of a string of decimal digits
RECURSIVE PyInt(_)
PyInt(chars) ==
    IF chars = <<>> THEN 0
    ELSE 10 * PyInt(SubSeq(chars, 1, Len(chars) - 1)) + DigitOf(chars[Len(chars)])

\* float(chars) of a string "ddd.ddd": the fraction <<digits as an int, 10^decimals>>
PyFloat(chars) ==
    LET dot == CHOOSE i \in 1..Len(chars) : chars[i] = "."
    IN  << PyInt(SubSeq(chars, 1, dot - 1) \o SubSeq(chars, dot + 1, Len(chars))),
           Pow10(Len(chars) - dot) >>

\* build_sma_df without the filter df[df['date'] != gapping_date]
build_sma_df_unfiltered(sma_dict, sma_days, ticker, gapping_date) ==
    [columns |-> <<"ticker", "date", "gapping_date", "SMA_" \o sma_days>>,
     rows |-> [i \in 1..Len(sma_dict) |->
                 [index |-> i - 1, ticker |-> ticker, date |-> sma_dict[i].date,
                  gapping_date |-> gapping_date, sma |-> PyFloat(sma_dict[i].SMA)]]]

\* build_sma_df: sma_dict is the mapping in key order, a sequence of
\* [date, SMA] entries with distinct dates; the frame keeps each row's index
build_sma_df(sma_dict, sma_days, ticker, gapping_date) ==
    LET dates_list == [i \in 1..Len(sma_dict) |-> sma_dict[i].date]
        ticker_list == [t \in 1..Len(dates_list) |-> ticker]
        gapping_date_list == [g \in 1..Len(dates_list) |-> gapping_date]
        sma_vals == [i \in 1..Len(sma_dict) |-> PyFloat(sma_dict[i].SMA)]
        zipped == [i \in 1..Len(dates_list) |->
                     [index |-> i - 1, ticker |-> ticker_list[i], date |-> dates_list[i],
                      gapping_date |-> gapping_date_list[i], sma |-> sma_vals[i]]]
        Keep(row) == row.date # gapping_date
    IN  [columns |-> <<"ticker", "date", "gapping_date", "SMA_" \o sma_days>>,
         rows |-> SelectSeq(zipped, Keep)]

GetPivots(low_list, high_list, n_periods) ==
    /\ ret.op = "none"
    /\ ret' = [op |-> "get_pivots", args |-> <<low_list, high_list, n_periods>>]
                 @@ get_pivots(low_list, high_list, n_periods)
    /\ UNCHANGED clientVars

GetAverageVolume(volume_list, n_periods) ==
    /\ ret.op = "none"
    /\ ret' = [op |-> "get_average_volume", args |-> <<volume_list, n_periods>>]
                 @@ get_average_volume(volume_list, n_periods)
    /\ UNCHANGED clientVars

BuildSmaDf(sma_dict, sma_days, ticker, gapping_date) ==
    /\ ret.op = "none"
    /\ ret' = Call("build_sma_df", <<sma_dict, sma_days, ticker, gapping_date>>, Ok,
                   build_sma_df(sma_dict, sma_days, ticker, gapping_date))
    /\ UNCHANGED clientVars

(* Inputs of the helpers; a behaviour of SpecUtils is one call of one helper *)

Lists == SeqsUpTo(1..MaxVal, MaxLen)

Periods == (-1)..(MaxLen + 1)

Dates == {"2020-01-01", "2020-01-02", "2020-01-03"}

SmaStrings == {<<"1", ".", "0">>, <<"1", "2", ".", "5", "0">>}

IsInjective(f) == \A i, j \in DOMAIN f : f[i].date = f[j].date => i = j

\* the mappings get_sma returns: date keys are distinct
SmaDicts == {d \in SeqsUpTo([date : Dates, SMA : SmaStrings], MaxKeys) : IsInjective(d)}

NextUtils ==
    \/ ret.op = "none" /\ \E l \in Lists, h \in Lists, n \in Periods : GetPivots(l, h, n)
    \/ ret.op = "none" /\ \E l \in Lists, n \in Periods : GetAverageVolume(l, n)
    \/ ret.op = "none" /\ \E d \in SmaDicts, g \in Dates : BuildSmaDf(d, "20", "AAPL", g)

SpecUtils == Init /\ [][NextUtils]_vars

-----------------------------------------------------------------------------
(* Properties *)

Last(seq) == seq[Len(seq)]

IsTokenOk(r) == r.kind = "token" /\ IsJson(r.resp)

IsData(r) == r.kind \in {"accounts", "candles", "quotes", "symbols"}

\* position of the latest successful token exchange before request j, 0 if none
LastTokenBefore(j) ==
    LET S == {i \in 1..(j - 1) : IsTokenOk(log[i])}
    IN  IF S = {} THEN 0 ELSE CHOOSE i \in S : \A k \in S : k <= i

\* position of the latest accounts request, 0 if none
LastAccounts ==
    LET S == {i \in 1..Len(log) : log[i].kind = "accounts"}
    IN  IF S = {} THEN 0 ELSE CHOOSE i \in S : \A k \in S : k <= i

\* C1: a token call (get_access_token, refresh_access_token, or the one made by
\* __init__) whose response body is "Bad Request" ends with
\* ValueError('Invalid client token'), never with a JSON decode error.
C1_BadRequestRaisesInvalidToken ==
    (/\ log # <<>>
     /\ Last(log).kind = "token"
     /\ Last(log).resp.text = "Bad Request")
    => /\ ret.op = Last(log).op
       /\ ret.outcome = InvalidClientToken
       /\ ret.outcome # JSONDecodeError

C1_Witness ==
    /\ Len(log) >= 4
    /\ ret.op = "refresh_access_token"
    /\ Last(log).resp = BadRequest
    /\ ret.outcome = InvalidClientToken
    /\ log[3].op = "get_access_token"
    /\ log[3].resp = BadRequest

\* C2: with a non-empty result list, get_symbol_id returns str(symbolId) of the
\* first result when its symbol equals the ticker, and raises the no-exact-match
\* ValueError whenever the first symbol differs, later matches notwithstanding.
C2_FirstResultOnly ==
    (ret.op = "get_symbol_id" /\ Len(ret.args[2]) > 0)
    => LET ticker == ret.args[1]
           first == ret.args[2][1]
       IN  /\ first.symbol = ticker
                => ret.outcome = Ok /\ PyInt(ret.value) = first.symbolId
           /\ first.symbol # ticker => ret.outcome = NoExactMatch

C2_Witness ==
    /\ ret.op = "get_symbol_id"
    /\ ret.args[1] = "AAPL"
    /\ Len(ret.args[2]) = 2
    /\ ret.args[2][1].symbol = "AAP"
    /\ ret.args[2][2].symbol = "AAPL"
    /\ ret.outcome = NoExactMatch

\* C3: get_pivots with n_periods above the length of either list, and
\* get_average_volume with n_periods above the length of its list, fail
\* (InsufficientDataError; any exception raised is counted as that failure)
\* and return no result computed from the truncated list.
C3_ShortListFails ==
    /\ (ret.op = "get_pivots"
        /\ (ret.args[3] > Len(ret.args[1]) \/ ret.args[3] > Len(ret.args[2])))
       => ret.outcome # Ok
    /\ (ret.op = "get_average_volume" /\ ret.args[2] > Len(ret.args[1]))
       => ret.outcome # Ok

\* v is (extremum, position) of the first n elements of list: the extremum is an
\* element no other beats, at its first 0-based position
IsLowPivot(v, list, n) ==
    /\ v[2] \in 0..(n - 1)
    /\ list[v[2] + 1] = v[1]
    /\ \A k \in 1..n : list[k] >= v[1]
    /\ \A k \in 1..v[2] : list[k] # v[1]

IsHighPivot(v, list, n) ==
    /\ v[2] \in 0..(n - 1)
    /\ list[v[2] + 1] = v[1]
    /\ \A k \in 1..n : list[k] <= v[1]
    /\ \A k \in 1..v[2] : list[k] # v[1]

\* C4 as stated: for every n from 0 to the length of both lists, get_pivots
\* returns the min and max of the first n elements with their first positions.
C4_Original ==
    (/\ ret.op = "get_pivots"
     /\ ret.args[3] >= 0
     /\ ret.args[3] <= Len(ret.args[1])
     /\ ret.args[3] <= Len(ret.args[2]))
    => /\ ret.outcome = Ok
       /\ IsLowPivot(ret.value[1], ret.args[1], ret.args[3])
       /\ IsHighPivot(ret.value[2], ret.args[2], ret.args[3])

\* C4: for every n from 1 to the length of both lists, get_pivots returns the
\* min and max of the first n elements with their first 0-based positions; for
\* n = 0 it raises ValueError (min() of an empty sequence).
C4_PivotOfFirstN ==
    /\ (/\ ret.op = "get_pivots"
        /\ ret.args[3] >= 1
        /\ ret.args[3] <= Len(ret.args[1])
        /\ ret.args[3] <= Len(ret.args[2]))
       => /\ ret.outcome = Ok
          /\ IsLowPivot(ret.value[1], ret.args[1], ret.args[3])
          /\ IsHighPivot(ret.value[2], ret.args[2], ret.args[3])
    /\ (ret.op = "get_pivots" /\ ret.args[3] = 0) => ret.outcome = EmptySequence

C4_Witness ==
    /\ ret.op = "get_pivots"
    /\ ret.args = << <<2, 2, 1>>, <<1, 3, 3>>, 2 >>
    /\ ret.value = << <<2, 0>>, <<3, 1>> >>

\* C5: build_sma_df returns one row (ticker, date, gapping_date, float(SMA)) for
\* each date key other than gapping_date, in key order, and no row dated
\* gapping_date: one row fewer than keys when gapping_date is a key.
C5_RowsExcludeGappingDate ==
    ret.op = "build_sma_df"
    => LET sma_dict == ret.args[1]
           ticker == ret.args[3]
           gapping_date == ret.args[4]
           rows == ret.value.rows
           keys == 1..Len(sma_dict)
           kept == {i \in keys : sma_dict[i].date # gapping_date}
       IN  /\ \A r \in 1..Len(rows) :
                 /\ rows[r].date # gapping_date
                 /\ rows[r].ticker = ticker
                 /\ rows[r].gapping_date = gapping_date
                 /\ rows[r].index + 1 \in kept
                 /\ rows[r].date = sma_dict[rows[r].index + 1].date
                 /\ rows[r].sma = PyFloat(sma_dict[rows[r].index + 1].SMA)
           /\ \A i \in kept : \E r \in 1..Len(rows) : rows[r].index + 1 = i
           /\ \A r, q \in 1..Len(rows) : r < q => rows[r].index < rows[q].index
           /\ Len(rows) = IF \E i \in keys : sma_dict[i].date = gapping_date
                          THEN Len(sma_dict) - 1 ELSE Len(sma_dict)

C5_Witness ==
    /\ ret.op = "build_sma_df"
    /\ ret.args[1] = << [date |-> "2020-01-01", SMA |-> <<"1", ".", "0">>],
                        [date |-> "2020-01-02", SMA |-> <<"1", "2", ".", "5", "0">>] >>
    /\ ret.args[4] = "2020-01-02"
    /\ Len(ret.value.rows) = 1
    /\ ret.value.rows[1].date = "2020-01-01"
    /\ ret.value.rows[1].sma = <<10, 10>>

\* C6 as stated: the request after every successful token exchange of
\* get_access_token (called by __init__ or by the caller) is the accounts request.
C6_Original ==
    \A i \in 1..(Len(log) - 1) :
        (IsTokenOk(log[i]) /\ log[i].op \in {"__init__", "get_access_token"})
        => log[i + 1].kind = "accounts"

\* C6: the successful token exchange made by __init__ is followed at once by the
\* accounts request of __init__, sent with the new Authorization header, and the
\* cached accounts are the response of the latest accounts request;
\* get_access_token called on the constructed client sends the token request only.
C6_ConstructorFetchesAccounts ==
    /\ \A i \in 1..Len(log) :
          (IsTokenOk(log[i]) /\ log[i].op = "__init__")
          => /\ i < Len(log)
             /\ log[i + 1].op = "__init__"
             /\ log[i + 1].kind = "accounts"
             /\ log[i + 1].auth = Authorization(Json(log[i].resp))
    /\ client = "ready"
          => LastAccounts > 0 /\ accounts = Json(log[LastAccounts].resp)
    /\ \A i \in 1..Len(log) : log[i].op = "get_access_token" => log[i].kind = "token"

C6_Witness ==
    /\ client = "ready"
    /\ Len(log) = 2
    /\ IsTokenOk(log[1])
    /\ log[2].kind = "accounts"
    /\ accounts = Json(log[2].resp)
    /\ accounts = "accountsB"

\* C7: on a constructed client the session's Authorization header (and
\* self.headers) is token_type + " " + access_token of the stored token, and every
\* request sent after a successful token exchange carries the header of the
\* latest one.
C7_HeaderMatchesToken ==
    /\ client = "ready"
          => /\ session_headers
                  = access_token.token_type \o " " \o access_token.access_token
             /\ headers = session_headers
    /\ \A j \in 1..Len(log) :
          LastTokenBefore(j) > 0
          => log[j].auth = Authorization(Json(log[LastTokenBefore(j)].resp))

C7_Witness ==
    /\ Len(log) = 4
    /\ log[1].resp = JsonBody(T1)
    /\ log[3].op = "refresh_access_token"
    /\ log[3].resp = JsonBody(T2)
    /\ log[4].kind = "quotes"
    /\ log[4].auth = "Bearer a2"
    /\ session_headers = "Bearer a2"

\* C8: every refresh_access_token sends the refresh_token of the stored token,
\* the one the latest successful token response returned; the token request of
\* get_access_token (and of __init__) sends the client token of construction.
C8_RefreshSendsStoredToken ==
    \A j \in 1..Len(log) :
        /\ log[j].op = "refresh_access_token"
              => /\ LastTokenBefore(j) > 0
                 /\ log[j].url
                      = serv_url \o Json(log[LastTokenBefore(j)].resp).refresh_token
        /\ (log[j].kind = "token" /\ log[j].op \in {"__init__", "get_access_token"})
              => log[j].url = serv_url \o client_token

C8_Witness ==
    /\ Len(log) = 4
    /\ log[1].resp = JsonBody(T1)
    /\ log[3].op = "refresh_access_token"
    /\ log[3].url = serv_url \o "r1"
    /\ log[3].resp = JsonBody(T2)
    /\ log[4].op = "refresh_access_token"
    /\ log[4].url = serv_url \o "r2"

\* C9: every data request carries an Authorization header obtained by an
\* earlier successful token exchange; a constructed client holds a token and the
\* header; a construction answered "Bad Request" sent the token request only
\* and left no client.
C9_NoUnauthenticatedRequest ==
    /\ \A j \in 1..Len(log) :
          IsData(log[j]) => log[j].auth # None /\ LastTokenBefore(j) > 0
    /\ client = "ready"
          => access_token # NoToken /\ session_headers # None /\ headers # None
    /\ (log # <<>> /\ log[1].resp.text = "Bad Request")
          => /\ client = "failed"
             /\ Len(log) = 1
             /\ access_token = NoToken
             /\ session_headers = None

C9_Witness ==
    /\ client = "failed"
    /\ Len(log) = 1
    /\ log[1].op = "__init__"
    /\ log[1].resp = BadRequest
    /\ ret.outcome = InvalidClientToken
    /\ access_token = NoToken

\* C10: a get_access_token or refresh_access_token call on a constructed client
\* that is answered "Bad Request" leaves the stored token, self.headers, the
\* session's Authorization header and the cached accounts as they were.
C10_BadRequestChangesNothing ==
    [][(/\ client = "ready"
        /\ Len(log') = Len(log) + 1
        /\ log'[Len(log')].kind = "token"
        /\ log'[Len(log')].resp.text = "Bad Request")
       => /\ access_token' = access_token
          /\ headers' = headers
          /\ session_headers' = session_headers
          /\ accounts' = accounts
          /\ client' = "ready"]_vars

C10_Witness ==
    /\ client = "ready"
    /\ Len(log) = 4
    /\ log[3].op = "refresh_access_token"
    /\ log[3].resp = JsonBody(T2)
    /\ log[4].op = "refresh_access_token"
    /\ log[4].resp = BadRequest
    /\ access_token = T2
    /\ headers = "Bearer a2"
    /\ session_headers = "Bearer a2"
    /\ accounts = "accountsA"

====
